---- MODULE Spec2Model ----
(***************************************************************************)
(* A model of the two developer scripts of the repository:                 *)
(*   scripts/generate_vscode_debug_launches.py  (LaunchConfigSynchronizer) *)
(*   scripts/generate_structure_doc.py          (StructureDocGenerator)    *)
(* Text is a sequence of one-character strings, Python values and JSON     *)
(* values are tagged records, a file on disk is a record with its kind.    *)
(***************************************************************************)
EXTENDS Integers, Sequences, FiniteSets, TLC

VARIABLES
    tool,               \* which script runs: "launch" or "doc"
    pc,                 \* position of the running script
    run,                \* number of the current run of the script
    exit_status,        \* "running", or the exit status of the process (0, 1)
    sep,                \* os.sep of the platform: "/" (posix) or "\\" (nt)
    build,              \* the build-output directory: exists, listing
    launch_file,        \* .vscode/launch.json on disk
    launch_pre,         \* launch.json as it was when the current run started
    data,               \* the script's variable data
    preserved_configs,  \* the script's variable preserved_configs
    test_executables,   \* the script's variable test_executables
    test_configs,       \* the script's variable test_configs
    project,            \* the project root: target folder index -> node
    output_lines,       \* main()'s variable output_lines
    doc_file,           \* docs/_current_code_dir_structure_.md on disk
    doc_pre             \* the document as it was when the current run started

vars == <<tool, pc, run, exit_status, sep, build, launch_file, launch_pre, data,
          preserved_configs, test_executables, test_configs, project,
          output_lines, doc_file, doc_pre>>

launchVars == <<sep, build, launch_file, launch_pre, data, preserved_configs,
                test_executables, test_configs>>

docVars == <<project, output_lines, doc_file, doc_pre>>

\* ---------------------------------------------------------------- bounds

MaxConfigs == 2
MaxFiles == 2
MaxNodes == 4
MaxRuns == 2

\* ------------------------------------------------------------------ text

Uppers == <<"A","B","C","D","E","F","G","H","I","J","K","L","M",
            "N","O","P","Q","R","S","T","U","V","W","X","Y","Z">>

Lowers == <<"a","b","c","d","e","f","g","h","i","j","k","l","m",
            "n","o","p","q","r","s","t","u","v","w","x","y","z">>

\* The character U+0060 (grave accent), which a string literal cannot hold.
Backtick == "U+0060"

\* The characters the model uses, in code point order (str comparison).
CodePointOrder == <<"\n", " ", "#", "$", "-", ".", "/", "0", "2", ":">> \o Uppers
                  \o <<"\\", Backtick>> \o Lowers \o <<"{", "}">>

Ord(c) == CHOOSE i \in 1..Len(CodePointOrder) : CodePointOrder[i] = c

\* str.__lt__: lexicographic on code points, a proper prefix is smaller.
RECURSIVE str_lt(_, _)
str_lt(a, b) ==
    IF b = <<>> THEN FALSE
    ELSE IF a = <<>> THEN TRUE
    ELSE IF Head(a) = Head(b) THEN str_lt(Tail(a), Tail(b))
    ELSE Ord(Head(a)) < Ord(Head(b))

\* str.lower(), one character.
lower_char(c) ==
    IF \E i \in 1..Len(Uppers) : Uppers[i] = c
    THEN Lowers[CHOOSE i \in 1..Len(Uppers) : Uppers[i] = c]
    ELSE c

\* str.lower()
str_lower(s) == [i \in 1..Len(s) |-> lower_char(s[i])]

\* str.replace(old, new) for one-character old and new.
str_replace(s, old, new) == [i \in 1..Len(s) |-> IF s[i] = old THEN new ELSE s[i]]

\* needle in hay (substring test)
str_in(needle, hay) ==
    \E i \in 0..Len(hay) :
        /\ i + Len(needle) <= Len(hay)
        /\ SubSeq(hay, i + 1, i + Len(needle)) = needle

\* str.endswith(suffix)
str_endswith(s, suffix) ==
    /\ Len(suffix) <= Len(s)
    /\ SubSeq(s, Len(s) - Len(suffix) + 1, Len(s)) = suffix

\* "\n".join(lines) and its like
RECURSIVE str_join(_, _)
str_join(j, lines) ==
    IF lines = <<>> THEN <<>>
    ELSE IF Len(lines) = 1 THEN lines[1]
    ELSE lines[1] \o j \o str_join(j, Tail(lines))

\* ------------------------------------------------------- Python and JSON

PyStr(s) == [py |-> "str", s |-> s]
PyBool(b) == [py |-> "bool", b |-> b]
PyNone == [py |-> "None"]
PyList(items) == [py |-> "list", items |-> items]
PyDict(d) == [py |-> "dict", d |-> d]

\* dict.get(key, default)
dict_get(v, key, default) == IF key \in DOMAIN v.d THEN v.d[key] ELSE default

\* json.dump: the JSON document of a Python value.
RECURSIVE json_encode(_)
json_encode(v) ==
    CASE v.py = "str" -> [js |-> "string", s |-> v.s]
      [] v.py = "bool" -> [js |-> IF v.b THEN "true" ELSE "false"]
      [] v.py = "None" -> [js |-> "null"]
      [] v.py = "list" ->
            [js |-> "array", items |-> [i \in DOMAIN v.items |-> json_encode(v.items[i])]]
      [] v.py = "dict" ->
            [js |-> "object", members |-> [k \in DOMAIN v.d |-> json_encode(v.d[k])]]

\* json.load: the Python value of a JSON document.
RECURSIVE json_decode(_)
json_decode(j) ==
    CASE j.js = "string" -> PyStr(j.s)
      [] j.js = "true" -> PyBool(TRUE)
      [] j.js = "false" -> PyBool(FALSE)
      [] j.js = "null" -> PyNone
      [] j.js = "array" -> PyList([i \in DOMAIN j.items |-> json_decode(j.items[i])])
      [] j.js = "object" -> PyDict([k \in DOMAIN j.members |-> json_decode(j.members[k])])

\* A file on disk.
Absent == [kind |-> "absent"]
\* text that is no JSON document
Malformed == [kind |-> "malformed"]
\* a file just opened with mode "w": zero bytes
Empty == [kind |-> "empty"]
\* a JSON document, as json.dump writes it
JsonFile(doc) == [kind |-> "json", doc |-> doc]
\* what a write of text that raised midway leaves: some proper prefix of it
Partial(text) == [kind |-> "partial", of |-> text]

\* ------------------------------------------- generate_vscode_debug_launches

build_dir == <<"b","u","i","l","d","/","A","t","h","e","n","a","T","e","s","t","s">>

workspaceFolder == <<"$","{","w","o","r","k","s","p","a","c","e","F","o","l","d","e","r","}">>

exe_suffix == <<".","e","x","e">>

new_data == PyDict([version |-> PyStr(<<"0",".","2",".","0">>),
                    configurations |-> PyList(<<>>)])

\* A faulty is_test_program: the comparison without lower().
is_test_program_case_sensitive(program) ==
    IF program.py # "str" THEN FALSE
    ELSE str_in(str_replace(build_dir, "\\", "/"), str_replace(program.s, "\\", "/"))

\* Lines 34-38.
is_test_program(program) ==
    IF program.py # "str" THEN FALSE
    ELSE LET normalized == str_lower(str_replace(program.s, "\\", "/"))
         IN  str_in(str_lower(str_replace(build_dir, "\\", "/")), normalized)

\* os.path.join(a, b) for a relative b: a, os.sep unless a ends in a separator, b.
path_join(a, b) ==
    IF a = <<>> \/ a[Len(a)] = "/" \/ a[Len(a)] = sep THEN a \o b
    ELSE a \o <<sep>> \o b

\* A faulty program path: the executable placed in the workspace root.
program_in_workspace(exe) == workspaceFolder \o <<"/">> \o exe

\* Lines 71 and 78: f"${{workspaceFolder}}/{exe_path}"
program_path(exe) ==
    LET exe_path == str_replace(path_join(build_dir, exe), "\\", "/")
    IN  workspaceFolder \o <<"/">> \o exe_path

\* The body of the loop of lines 70-92: the configuration for one executable.
config(exe) ==
        PyDict([name |-> PyStr(<<"D","e","b","u","g"," ">> \o exe),
                type |-> PyStr(<<"c","p","p","d","b","g">>),
                request |-> PyStr(<<"l","a","u","n","c","h">>),
                program |-> PyStr(program_path(exe)),
                args |-> PyList(<<>>),
                stopAtEntry |-> PyBool(FALSE),
                cwd |-> PyStr(workspaceFolder \o <<"/">> \o build_dir),
                environment |-> PyList(<<>>),
                externalConsole |-> PyBool(TRUE),
                MIMode |-> PyStr(<<"g","d","b">>),
                setupCommands |-> PyList(<<
                    PyDict([text |-> PyStr(<<"-","g","d","b","-","s","e","t"," ","n","e","w",
                                             "-","c","o","n","s","o","l","e"," ","o","n">>)]),
                    PyDict([text |-> PyStr(<<"-","e","n","a","b","l","e","-","p","r","e","t",
                                             "t","y","-","p","r","i","n","t","i","n","g">>)])>>),
                preLaunchTask |-> PyStr(<<"b","u","i","l","d">>)])

\* ---- the inputs: launch.json and the build-output directory

prog_other == <<"b","u","i","l","d","/","A","t","h","e","n","a","/","a","p","p">>

prog_stale == <<"C",":","\\","B","U","I","L","D","\\","A","T","H","E","N","A",
                "T","E","S","T","S","\\","o",".","e","x","e">>

\* The entries an existing launch.json may hold (cfg of line 41): an unrelated
\* one (its program shares only a part of the build-output path), a
\* hand-written one into the build-output directory, one without program and
\* one whose program is null.
ExistingEntries ==
    { PyDict([name |-> PyStr(<<"A","p","p">>), program |-> PyStr(prog_other)]),
      PyDict([name |-> PyStr(<<"O","l","d">>), program |-> PyStr(prog_stale)]),
      PyDict([name |-> PyStr(<<"A","t","t","a","c","h">>)]),
      PyDict([name |-> PyStr(<<"N","u","l","l">>), program |-> PyNone]) }

ConfigLists == UNION { [1..n -> ExistingEntries] : n \in 0..MaxConfigs }

\* launch.json before the first run (launch_file of line 12).
LaunchFiles ==
    { Absent, Malformed,
      JsonFile([js |-> "array", items |-> <<>>]),
      JsonFile(json_encode(PyDict([version |-> PyStr(<<"0",".","2",".","0">>)]))) }
    \cup { JsonFile(json_encode(PyDict([version |-> PyStr(<<"0",".","2",".","0">>),
                                        configurations |-> PyList(cs)]))) :
             cs \in ConfigLists }

\* The entries the build-output directory may hold: name, and whether
\* os.path.isfile holds of it.
DirEntries ==
    { [name |-> <<"A",".","e","x","e">>, isfile |-> TRUE],
      [name |-> <<"T",".","e","x","e">>, isfile |-> TRUE],
      [name |-> <<"x","\\","y",".","e","x","e">>, isfile |-> TRUE],
      [name |-> <<"d",".","e","x","e">>, isfile |-> FALSE],
      [name |-> <<"r",".","t","x","t">>, isfile |-> TRUE] }

\* A file name holds no separator of its platform ("/" and os.sep).
ValidName(name, s) == \A i \in 1..Len(name) : name[i] # "/" /\ name[i] # s

\* os.listdir(build_path): the entries in the order the platform gives them.
Listings(s) ==
    { l \in UNION { [1..n -> DirEntries] : n \in 0..MaxFiles } :
        /\ \A i \in 1..Len(l) : ValidName(l[i].name, s)
        /\ \A i, j \in 1..Len(l) : i # j => l[i].name # l[j].name }

BuildDirs(s) == { [exists |-> FALSE, listing |-> <<>>] }
                \cup { [exists |-> TRUE, listing |-> l] : l \in Listings(s) }

\* ---- the script, top to bottom

\* len(v) is defined (line 25 takes the len of what data.get returns).
has_len(v) == v.py \in {"str", "list", "dict"}

\* Lines 22-25 raise: json.load on text that is no JSON document, data.get on
\* a document that is no object, len of a configurations that has none.
load_raises(file) ==
    IF file.kind # "json" THEN TRUE
    ELSE LET d == json_decode(file.doc)
         IN  IF d.py # "dict" THEN TRUE
             ELSE ~has_len(dict_get(d, "configurations", PyList(<<>>)))

\* Lines 26-28: no launch.json, a new structure.
CreateNew ==
    /\ tool = "launch" /\ pc = "load"
    /\ launch_file.kind = "absent"
    /\ data' = new_data
    /\ pc' = "partition"
    /\ UNCHANGED <<tool, run, exit_status, sep, build, launch_file, launch_pre,
                   preserved_configs, test_executables, test_configs>>
    /\ UNCHANGED docVars

\* Lines 22-25: launch.json exists and loads.
LoadExisting ==
    /\ tool = "launch" /\ pc = "load"
    /\ launch_file.kind # "absent"
    /\ ~load_raises(launch_file)
    /\ data' = json_decode(launch_file.doc)
    /\ pc' = "partition"
    /\ UNCHANGED <<tool, run, exit_status, sep, build, launch_file, launch_pre,
                   preserved_configs, test_executables, test_configs>>
    /\ UNCHANGED docVars

\* A faulty load: a file that does not load is replaced by a new structure.
LoadRaises_recovers ==
    /\ tool = "launch" /\ pc = "load"
    /\ launch_file.kind # "absent"
    /\ load_raises(launch_file)
    /\ data' = new_data
    /\ pc' = "partition"
    /\ UNCHANGED <<tool, run, exit_status, sep, build, launch_file, launch_pre,
                   preserved_configs, test_executables, test_configs>>
    /\ UNCHANGED docVars

\* Lines 22-25: launch.json exists and loading it raises; nothing catches it.
LoadRaises ==
    /\ tool = "launch" /\ pc = "load"
    /\ launch_file.kind # "absent"
    /\ load_raises(launch_file)
    /\ pc' = "failed"
    /\ exit_status' = <<1>>
    /\ UNCHANGED <<tool, run, sep, build, launch_file, launch_pre, data,
                   preserved_configs, test_executables, test_configs>>
    /\ UNCHANGED docVars

\* Lines 40-43 raise: data has no "configurations" (KeyError), or an entry
\* is no object and has no get (AttributeError).
partition_raises(d) ==
    IF "configurations" \notin DOMAIN d.d THEN TRUE
    ELSE IF d.d["configurations"].py # "list" THEN TRUE
    ELSE \E i \in DOMAIN d.d["configurations"].items :
            d.d["configurations"].items[i].py # "dict"

\* A faulty partition: every configuration is kept.
keeps_all(cfgs) == cfgs

\* Lines 40-43: the list comprehension.
preserved(cfgs) ==
    SelectSeq(cfgs, LAMBDA cfg : ~is_test_program(dict_get(cfg, "program", PyStr(<<>>))))

Partition ==
    /\ tool = "launch" /\ pc = "partition"
    /\ ~partition_raises(data)
    /\ preserved_configs' = preserved(data.d["configurations"].items)
    /\ pc' = "check_build"
    /\ UNCHANGED <<tool, run, exit_status, sep, build, launch_file, launch_pre, data,
                   test_executables, test_configs>>
    /\ UNCHANGED docVars

PartitionRaises ==
    /\ tool = "launch" /\ pc = "partition"
    /\ partition_raises(data)
    /\ pc' = "failed"
    /\ exit_status' = <<1>>
    /\ UNCHANGED <<tool, run, sep, build, launch_file, launch_pre, data,
                   preserved_configs, test_executables, test_configs>>
    /\ UNCHANGED docVars

\* A faulty check: a missing build-output directory counts as an empty one.
BuildDirMissing_skips ==
    /\ tool = "launch" /\ pc = "check_build"
    /\ ~build.exists
    /\ test_executables' = <<>>
    /\ pc' = "generate"
    /\ UNCHANGED <<tool, run, exit_status, sep, build, launch_file, launch_pre, data,
                   preserved_configs, test_configs>>
    /\ UNCHANGED docVars

\* Lines 51-53: no build-output directory, exit(1).
BuildDirMissing ==
    /\ tool = "launch" /\ pc = "check_build"
    /\ ~build.exists
    /\ pc' = "exited"
    /\ exit_status' = <<1>>
    /\ UNCHANGED <<tool, run, sep, build, launch_file, launch_pre, data,
                   preserved_configs, test_executables, test_configs>>
    /\ UNCHANGED docVars

\* Lines 55-61: the names of the listing that end in ".exe" and are files.
executables(listing) ==
    LET all_files == [i \in 1..Len(listing) |-> listing[i].name]
        isfile(f) == \E i \in 1..Len(listing) : listing[i].name = f /\ listing[i].isfile
    IN  SelectSeq(all_files, LAMBDA f : str_endswith(f, exe_suffix) /\ isfile(f))

ListDir ==
    /\ tool = "launch" /\ pc = "check_build"
    /\ build.exists
    /\ test_executables' = executables(build.listing)
    /\ pc' = "generate"
    /\ UNCHANGED <<tool, run, exit_status, sep, build, launch_file, launch_pre, data,
                   preserved_configs, test_configs>>
    /\ UNCHANGED docVars

\* Lines 69-92: one configuration per executable, in their order.
Generate ==
    /\ tool = "launch" /\ pc = "generate"
    /\ test_configs' = [i \in 1..Len(test_executables) |-> config(test_executables[i])]
    /\ pc' = "save"
    /\ UNCHANGED <<tool, run, exit_status, sep, build, launch_file, launch_pre, data,
                   preserved_configs, test_executables>>
    /\ UNCHANGED docVars

\* A faulty concatenation: the new configurations first.
new_first(p, t) == t \o p

\* Line 98: preserved_configs + test_configs
concatenated(p, t) == p \o t

\* Lines 98-101: the new configurations, os.makedirs(vscode_dir), and
\* open(launch_file, "w"), which truncates the file.
Save ==
    /\ tool = "launch" /\ pc = "save"
    /\ data' = [data EXCEPT !.d["configurations"] =
                    PyList(concatenated(preserved_configs, test_configs))]
    /\ launch_file' = Empty
    /\ pc' = "dump"
    /\ UNCHANGED <<tool, run, exit_status, sep, build, launch_pre,
                   preserved_configs, test_executables, test_configs>>
    /\ UNCHANGED docVars

\* Line 102: json.dump writes the whole document; the script ends.
Dump ==
    /\ tool = "launch" /\ pc = "dump"
    /\ launch_file' = JsonFile(json_encode(data))
    /\ pc' = "done"
    /\ exit_status' = <<0>>
    /\ UNCHANGED <<tool, run, sep, build, launch_pre, data,
                   preserved_configs, test_executables, test_configs>>
    /\ UNCHANGED docVars

\* Line 102: a write of json.dump raises OSError (disk full, I/O error) after
\* a part of the document went out; nothing catches it.
DumpInterrupted ==
    /\ tool = "launch" /\ pc = "dump"
    /\ launch_file' = Partial(json_encode(data))
    /\ pc' = "failed"
    /\ exit_status' = <<1>>
    /\ UNCHANGED <<tool, run, sep, build, launch_pre, data,
                   preserved_configs, test_executables, test_configs>>
    /\ UNCHANGED docVars

\* A filesystem call raises OSError before anything is written: open or read
\* of line 23, os.listdir of line 55, os.makedirs of line 99, open of line 101.
LaunchOSError ==
    /\ tool = "launch"
    /\ \/ pc = "load" /\ launch_file.kind # "absent"
       \/ pc = "check_build" /\ build.exists
       \/ pc = "save"
    /\ pc' = "failed"
    /\ exit_status' = <<1>>
    /\ UNCHANGED <<tool, run, sep, build, launch_file, launch_pre, data,
                   preserved_configs, test_executables, test_configs>>
    /\ UNCHANGED docVars

\* ------------------------------------------------- generate_structure_doc

\* A node of the file system: nothing, a file, or a directory with its
\* content, a function from the names to nodes.
NoNode == [kind |-> "none"]
FileNode == [kind |-> "file"]
DirNode(content) == [kind |-> "dir", content |-> content]

\* A text file on disk.
TextFile(text) == [kind |-> "text", text |-> text]

\* The names a directory entry may have.
Names == { <<"a">>, <<"a","b">>, <<"B">> }

\* The number of files and directories of a node, itself included.
RECURSIVE node_size(_)
node_size(node) ==
    LET RECURSIVE sum(_)
        sum(S) == IF S = {} THEN 0
                  ELSE LET x == CHOOSE x \in S : TRUE
                       IN  node_size(node.content[x]) + sum(S \ {x})
    IN  CASE node.kind = "none" -> 0
          [] node.kind = "file" -> 1
          [] node.kind = "dir" -> 1 + sum(DOMAIN node.content)

\* The directory contents over names, and the nodes, of at most n files and
\* directories.
RECURSIVE ContentsUpTo(_, _), NodesUpTo(_)
ContentsUpTo(names, n) ==
    IF names = {} THEN { <<>> }
    ELSE LET x == CHOOSE x \in names : TRUE
         IN  UNION { { (x :> node) @@ c : c \in ContentsUpTo(names \ {x}, n - node_size(node)) } :
                     node \in NodesUpTo(n) }

NodesUpTo(n) ==
    IF n = 0 THEN { NoNode }
    ELSE { NoNode, FileNode } \cup { DirNode(c) : c \in ContentsUpTo(Names, n - 1) }

target_dirs == << <<"s","r","c">>, <<"t","e","s","t","s">> >>

\* The project root (parent_dir of line 16): what is at each target folder.
Projects ==
    UNION { { <<src, tests>> : tests \in NodesUpTo(MaxNodes - node_size(src)) } :
            src \in NodesUpTo(MaxNodes) }

\* os.listdir(root)
listdir(content) == { n \in DOMAIN content : content[n].kind # "none" }

\* A faulty sort: sorted(names, key=str.lower).
RECURSIVE sorted_ignoring_case(_)
sorted_ignoring_case(S) ==
    IF S = {} THEN <<>>
    ELSE LET m == CHOOSE m \in S : \A x \in S \ {m} : str_lt(str_lower(m), str_lower(x))
         IN  <<m>> \o sorted_ignoring_case(S \ {m})

\* sorted(names)
RECURSIVE sorted(_)
sorted(S) ==
    IF S = {} THEN <<>>
    ELSE LET m == CHOOSE m \in S : \A x \in S \ {m} : str_lt(m, x)
         IN  <<m>> \o sorted(S \ {m})

\* Lines 3-12; root is the content of the directory.
RECURSIVE generate_file_structure(_, _)
generate_file_structure(root, prefix) ==
    LET items == sorted(listdir(root))
        RECURSIVE entries(_)
        entries(i) ==
            IF i > Len(items) THEN <<>>
            ELSE LET item == items[i]
                 IN  IF root[item].kind = "dir"
                     THEN <<prefix \o <<"-"," ">> \o item \o <<"/">> >>
                          \o generate_file_structure(root[item].content, prefix \o <<" "," ">>)
                          \o entries(i + 1)
                     ELSE <<prefix \o <<"-"," ">> \o item>> \o entries(i + 1)
    IN  entries(1)

\* "# Current Code Directory Structure\n" (line 18)
title == <<"#"," ","C","u","r","r","e","n","t"," ","C","o","d","e"," ","D","i","r","e","c",
           "t","o","r","y"," ","S","t","r","u","c","t","u","r","e","\n">>

\* f"## `{folder}/`" (line 23)
heading(folder) == <<"#","#"," ",Backtick>> \o folder \o <<"/",Backtick>>

\* f"## `{folder}/` not found.\n" (line 28)
not_found(folder) ==
    heading(folder) \o <<" ","n","o","t"," ","f","o","u","n","d",".","\n">>

\* A faulty section: an absent target adds nothing to output_lines.
section_silent(folder, node) ==
    IF node.kind # "none"
    THEN <<heading(folder)>> \o generate_file_structure(node.content, <<>>) \o << <<>> >>
    ELSE <<>>

\* Lines 21-28: what one target folder adds to output_lines.
section(folder, node) ==
    IF node.kind # "none"
    THEN <<heading(folder)>> \o generate_file_structure(node.content, <<>>) \o << <<>> >>
    ELSE <<not_found(folder)>>

\* Lines 18-28: the loop over target_dirs.
RECURSIVE sections(_, _)
sections(p, i) ==
    IF i > Len(target_dirs) THEN <<>>
    ELSE section(target_dirs[i], p[i]) \o sections(p, i + 1)

\* os.listdir raises on a target that exists and is no directory.
scan_raises(p) == { i \in 1..Len(target_dirs) : p[i].kind = "file" } # {}

ScanTargets ==
    /\ tool = "doc" /\ pc = "scan"
    /\ ~scan_raises(project)
    /\ output_lines' = <<title>> \o sections(project, 1)
    /\ pc' = "open"
    /\ UNCHANGED <<tool, run, exit_status, project, doc_file, doc_pre>>
    /\ UNCHANGED launchVars

ScanRaises ==
    /\ tool = "doc" /\ pc = "scan"
    /\ scan_raises(project)
    /\ pc' = "failed"
    /\ exit_status' = <<1>>
    /\ UNCHANGED <<tool, run, project, output_lines, doc_file, doc_pre>>
    /\ UNCHANGED launchVars

\* Lines 30-34: os.makedirs, and open(output_file, "w") truncates the file.
OpenDocFile ==
    /\ tool = "doc" /\ pc = "open"
    /\ doc_file' = TextFile(<<>>)
    /\ pc' = "write"
    /\ UNCHANGED <<tool, run, exit_status, project, output_lines, doc_pre>>
    /\ UNCHANGED launchVars

\* Lines 35-37: the whole text is written; main returns.
WriteDoc ==
    /\ tool = "doc" /\ pc = "write"
    /\ doc_file' = TextFile(str_join(<<"\n">>, output_lines))
    /\ pc' = "done"
    /\ exit_status' = <<0>>
    /\ UNCHANGED <<tool, run, project, output_lines, doc_pre>>
    /\ UNCHANGED launchVars

\* Line 35: the write raises OSError after a part of the text went out.
WriteDocInterrupted ==
    /\ tool = "doc" /\ pc = "write"
    /\ doc_file' = Partial(str_join(<<"\n">>, output_lines))
    /\ pc' = "failed"
    /\ exit_status' = <<1>>
    /\ UNCHANGED <<tool, run, project, output_lines, doc_pre>>
    /\ UNCHANGED launchVars

\* A filesystem call raises OSError before anything is written: os.listdir
\* of line 5 (a target exists), os.makedirs of line 31, open of line 34.
DocOSError ==
    /\ tool = "doc"
    /\ \/ pc = "scan" /\ \E i \in 1..Len(target_dirs) : project[i].kind # "none"
       \/ pc = "open"
    /\ pc' = "failed"
    /\ exit_status' = <<1>>
    /\ UNCHANGED <<tool, run, project, output_lines, doc_file, doc_pre>>
    /\ UNCHANGED launchVars

\* ------------------------------------------------------ the specification

\* The script is run again, on the file system as the last run left it.
RerunLaunch ==
    /\ tool = "launch" /\ pc = "done"
    /\ run < MaxRuns
    /\ run' = run + 1
    /\ pc' = "load"
    /\ exit_status' = <<>>
    /\ launch_pre' = launch_file
    /\ data' = PyNone
    /\ preserved_configs' = <<>>
    /\ test_executables' = <<>>
    /\ test_configs' = <<>>
    /\ UNCHANGED <<tool, sep, build, launch_file>>
    /\ UNCHANGED docVars

RerunDoc ==
    /\ tool = "doc" /\ pc = "done"
    /\ run < MaxRuns
    /\ run' = run + 1
    /\ pc' = "scan"
    /\ exit_status' = <<>>
    /\ doc_pre' = doc_file
    /\ output_lines' = <<>>
    /\ UNCHANGED <<tool, project, doc_file>>
    /\ UNCHANGED launchVars

InitLaunch ==
    /\ tool = "launch"
    /\ pc = "load"
    /\ sep \in {"/", "\\"}
    /\ build \in BuildDirs(sep)
    /\ launch_file \in LaunchFiles
    /\ project = [i \in 1..Len(target_dirs) |-> NoNode]
    /\ doc_file = Absent

InitDoc ==
    /\ tool = "doc"
    /\ pc = "scan"
    /\ sep = "/"
    /\ build = [exists |-> FALSE, listing |-> <<>>]
    /\ launch_file = Absent
    /\ project \in Projects
    /\ doc_file \in {Absent, TextFile(<<"o","l","d">>)}

InitRun ==
    /\ run = 1
    /\ exit_status = <<>>
    /\ launch_pre = launch_file
    /\ doc_pre = doc_file
    /\ data = PyNone
    /\ preserved_configs = <<>>
    /\ test_executables = <<>>
    /\ test_configs = <<>>
    /\ output_lines = <<>>

Init == (InitLaunch \/ InitDoc) /\ InitRun

LaunchInit == InitLaunch /\ InitRun

DocInit == InitDoc /\ InitRun

NextLaunch ==
    \/ CreateNew \/ LoadExisting \/ LoadRaises
    \/ Partition \/ PartitionRaises
    \/ BuildDirMissing \/ ListDir \/ Generate \/ Save
    \/ Dump \/ DumpInterrupted \/ LaunchOSError
    \/ RerunLaunch

NextDoc ==
    \/ ScanTargets \/ ScanRaises \/ OpenDocFile \/ WriteDoc \/ WriteDocInterrupted
    \/ DocOSError
    \/ RerunDoc

Next == NextLaunch \/ NextDoc

\* Either script, run on its own inputs.
Spec == Init /\ [][Next]_vars

\* generate_vscode_debug_launches.py alone.
SpecLaunch == LaunchInit /\ [][NextLaunch]_vars

\* generate_structure_doc.py alone.
SpecDoc == DocInit /\ [][NextDoc]_vars

\* ------------------------------------------------- what the claims speak of

LaunchSucceeded == tool = "launch" /\ pc = "done"

\* The process has ended with a status other than 0.
ExitedNonZero == exit_status # <<>> /\ exit_status[1] # 0

\* The configurations of launch.json as the run found it (none: no file).
InputConfigs ==
    IF launch_pre.kind = "json"
    THEN json_decode(launch_pre.doc).d["configurations"].items
    ELSE <<>>

\* The configurations of launch.json as it is on disk.
WrittenConfigs == json_decode(launch_file.doc).d["configurations"].items

\* The pairs of distinct characters that differ only in letter case or in
\* the kind of separator.
AlikePairs == { {Uppers[i], Lowers[i]} : i \in 1..Len(Uppers) } \cup { {"/", "\\"} }

\* Two characters are the same up to letter case and the kind of separator.
SameChar(a, b) == a = b \/ {a, b} \in AlikePairs

\* The program of a configuration is a string that holds the build-output
\* directory at some offset, letter case and kind of separator ignored.
RefersToBuildDir(cfg) ==
    /\ cfg.py = "dict"
    /\ "program" \in DOMAIN cfg.d
    /\ cfg.d["program"].py = "str"
    /\ LET p == cfg.d["program"].s
       IN  \E k \in 0..(Len(p) - Len(build_dir)) :
              \A j \in 1..Len(build_dir) : SameChar(p[k + j], build_dir[j])

\* The input configurations that do not refer to the build-output directory.
Unrelated ==
    LET RECURSIVE keep(_)
        keep(cfgs) == IF cfgs = <<>> THEN <<>>
                      ELSE IF RefersToBuildDir(Head(cfgs)) THEN keep(Tail(cfgs))
                      ELSE <<Head(cfgs)>> \o keep(Tail(cfgs))
    IN  keep(InputConfigs)

\* The names in the build-output directory, in listing order, of the regular
\* files whose name ends in ".exe".
Discovered ==
    LET l == build.listing
        hit(i) == /\ l[i].isfile
                  /\ Len(l[i].name) >= Len(exe_suffix)
                  /\ \A j \in 1..Len(exe_suffix) :
                        l[i].name[Len(l[i].name) - Len(exe_suffix) + j] = exe_suffix[j]
        RECURSIVE from(_)
        from(i) == IF i > Len(l) THEN <<>>
                   ELSE IF hit(i) THEN <<l[i].name>> \o from(i + 1)
                   ELSE from(i + 1)
    IN  from(1)

DebugName(exe) == PyStr(<<"D","e","b","u","g"," ">> \o exe)

\* C1: a successful run writes the input configurations that do not refer to
\* the build-output directory, unmodified and in their order, followed by one
\* new entry per discovered executable, in discovery order.
C1_PreservedThenNew ==
    LaunchSucceeded =>
        \A out \in {WrittenConfigs} : \A kept \in {Unrelated} : \A exes \in {Discovered} :
            /\ Len(out) = Len(kept) + Len(exes)
            /\ \A i \in 1..Len(kept) : out[i] = kept[i]
            /\ \A i \in 1..Len(exes) : out[Len(kept) + i].d["name"] = DebugName(exes[i])

C1_Witness ==
    /\ LaunchSucceeded /\ run = 1
    /\ Len(Unrelated) >= 1
    /\ Len(InputConfigs) > Len(Unrelated)
    /\ Len(Discovered) >= 2

\* C2: after a successful run the written configurations that refer to the
\* build-output directory are exactly the last ones, one per discovered
\* executable and named after it; with no executable the output is the input
\* configurations that do not refer to the directory.
C2_BuildEntriesRegenerated ==
    LaunchSucceeded =>
        \A out \in {WrittenConfigs} : \A exes \in {Discovered} :
            LET fresh == { i \in 1..Len(out) : RefersToBuildDir(out[i]) }
                first == Len(out) - Len(exes)
            IN  /\ fresh = { i \in 1..Len(out) : i > first }
                /\ Cardinality(fresh) = Len(exes)
                /\ \A i \in fresh : out[i].d["name"] = DebugName(exes[i - first])
                /\ exes = <<>> => out = Unrelated

C2_Witness ==
    /\ LaunchSucceeded /\ run = 1
    /\ \E i \in 1..Len(InputConfigs) : RefersToBuildDir(InputConfigs[i])
    /\ Len(Discovered) >= 1
    /\ Len(WrittenConfigs) > Len(Discovered)

\* C3: a second successful run on an unchanged build-output directory leaves
\* the configurations the first run wrote.
C3_Idempotent ==
    (LaunchSucceeded /\ run >= 2) =>
        /\ launch_pre.kind = "json"
        /\ WrittenConfigs = InputConfigs
        /\ launch_file = launch_pre

C3_Witness ==
    /\ LaunchSucceeded /\ run = 2
    /\ Len(Discovered) >= 1
    /\ Len(WrittenConfigs) > Len(Discovered)

\* C4: without a build-output directory the run writes nothing (launch.json
\* stays as it was, absent or not), never reaches the save, and ends with a
\* non-zero status.
C4_MissingBuildDir ==
    (tool = "launch" /\ ~build.exists) =>
        /\ launch_file = launch_pre
        /\ pc \in {"load", "partition", "check_build", "exited", "failed"}
        /\ pc \in {"exited", "failed"} => ExitedNonZero
        /\ pc \notin {"exited", "failed"} => ENABLED NextLaunch

C4_Witness ==
    /\ tool = "launch" /\ pc = "exited"
    /\ ~build.exists
    /\ launch_pre.kind = "json"
    /\ launch_file = launch_pre

\* C5: at the end of a run the output file is its prior content or the
\* complete new content, whatever failed.
C5_NoPartialWrite ==
    pc \in {"done", "exited", "failed"} =>
        /\ tool = "launch" =>
              \/ launch_file = launch_pre
              \/ pc = "done" /\ launch_file = JsonFile(json_encode(data))
        /\ tool = "doc" =>
              \/ doc_file = doc_pre
              \/ pc = "done" /\ doc_file = TextFile(str_join(<<"\n">>, output_lines))

\* C6: a launch.json that json.load cannot parse aborts the run at the load
\* and stays as it was; launch.json differs from its pre-run content only
\* once loading, partitioning and discovery are done.
C6_MalformedAborts ==
    tool = "launch" =>
        /\ launch_pre.kind = "malformed" =>
              /\ launch_file = launch_pre
              /\ pc \in {"load", "failed"}
              /\ pc = "failed" => ExitedNonZero
        /\ launch_file # launch_pre =>
              /\ pc \in {"dump", "done", "failed"}
              /\ launch_pre.kind \in {"absent", "json"}
              /\ build.exists
              /\ test_executables = Discovered
              /\ Len(test_configs) = Len(Discovered)
              /\ data.d["configurations"].items = preserved_configs \o test_configs

C6_Witness ==
    /\ tool = "launch" /\ pc = "failed"
    /\ launch_pre.kind = "malformed"
    /\ launch_file = launch_pre

\* C7: with no launch.json and a build-output directory, the written file
\* has version "0.2.0" and one configuration per regular file of the
\* directory that ends in ".exe", named "Debug <file name>", with request
\* "launch", no args, preLaunchTask "build" and as program the placeholder,
\* the build-output directory and the file name, joined by "/".
C7_NewFilePerExecutable ==
    (LaunchSucceeded /\ run = 1 /\ launch_pre.kind = "absent") =>
        LET written == json_decode(launch_file.doc)
            out == WrittenConfigs
        IN  /\ written.d["version"] = PyStr(<<"0",".","2",".","0">>)
            /\ Len(out) = Len(Discovered)
            /\ \A i \in 1..Len(Discovered) :
                  /\ out[i].d["name"] = DebugName(Discovered[i])
                  /\ out[i].d["request"] = PyStr(<<"l","a","u","n","c","h">>)
                  /\ out[i].d["args"] = PyList(<<>>)
                  /\ out[i].d["preLaunchTask"] = PyStr(<<"b","u","i","l","d">>)
                  /\ out[i].d["program"] =
                        PyStr(workspaceFolder \o <<"/">> \o build_dir \o <<"/">>
                              \o Discovered[i])
                  /\ str_endswith(out[i].d["program"].s, Discovered[i])

\* C10: once the configurations are partitioned, an input configuration is
\* gone from the preserved ones if and only if its program is a string that
\* refers to the build-output directory; one without program, or whose
\* program is no string, is preserved.
C10_StaleIffRefers ==
    (tool = "launch"
       /\ pc \in {"check_build", "generate", "save", "dump", "done", "exited"}) =>
        \A input \in {InputConfigs} : \A i \in 1..Len(input) :
            LET cfg == input[i]
                discarded == \A j \in 1..Len(preserved_configs) : preserved_configs[j] # cfg
            IN  /\ discarded <=> RefersToBuildDir(cfg)
                /\ ("program" \notin DOMAIN cfg.d \/ cfg.d["program"].py # "str")
                      => ~discarded

C10_Witness ==
    /\ tool = "launch" /\ pc = "check_build" /\ run = 1
    /\ \E i, j \in 1..Len(InputConfigs) :
          /\ RefersToBuildDir(InputConfigs[i])
          /\ str_in(<<"\\","B","U","I","L","D">>, InputConfigs[i].d["program"].s)
          /\ "program" \notin DOMAIN InputConfigs[j].d
    /\ Len(preserved_configs) = 1

\* ---- the structure document

\* The paths, from a directory content down, of its files and directories.
RECURSIVE PathsOf(_)
PathsOf(content) ==
    UNION { {<<n>>} \cup
            (IF content[n].kind = "dir"
             THEN { <<n>> \o q : q \in PathsOf(content[n].content) }
             ELSE {}) :
            n \in { m \in DOMAIN content : content[m].kind # "none" } }

RECURSIVE NodeAt(_, _)
NodeAt(content, p) ==
    IF Len(p) = 1 THEN content[p[1]] ELSE NodeAt(content[p[1]].content, Tail(p))

\* a precedes b lexicographically, by code point.
NameBefore(a, b) ==
    \E k \in 1..Len(b) :
        /\ \A j \in 1..(k - 1) : j <= Len(a) /\ a[j] = b[j]
        /\ k > Len(a) \/ Ord(a[k]) < Ord(b[k])

\* p precedes q in the pre-order walk that visits names in lexicographic
\* order: p is above q, or they part at a name of p that precedes q's.
PathBefore(p, q) ==
    \E k \in 1..Len(q) :
        /\ \A j \in 1..(k - 1) : j <= Len(p) /\ p[j] = q[j]
        /\ k > Len(p) \/ NameBefore(p[k], q[k])

Rank(paths, p) == 1 + Cardinality({ q \in paths : PathBefore(q, p) })

\* The line of a path: two spaces per level below the target, "- ", the
\* name, and "/" for a directory.
LineOf(content, p) ==
    [i \in 1..(2 * (Len(p) - 1)) |-> " "] \o <<"-", " ">> \o p[Len(p)]
    \o (IF NodeAt(content, p).kind = "dir" THEN <<"/">> ELSE <<>>)

\* The lines of a tree, one per path, in rank order.
Listing(content) ==
    LET paths == PathsOf(content)
    IN  [r \in 1..Cardinality(paths) |->
            LineOf(content, CHOOSE p \in paths : Rank(paths, p) = r)]

\* Where in output_lines the section of target i starts.
RECURSIVE SectionStart(_)
SectionStart(i) ==
    IF i = 1 THEN 2
    ELSE SectionStart(i - 1)
         + (IF project[i - 1].kind = "dir"
            THEN Cardinality(PathsOf(project[i - 1].content)) + 2
            ELSE 1)

DocSucceeded == tool = "doc" /\ pc = "done"

\* The text of the document on disk.
DocText == doc_file.text

\* C8: when the run is done its status is 0 and the document holds, for
\* every absent target, its "not found" heading and, for every present one,
\* its heading and its whole listing; a run that fails before output_lines
\* is built has some target present (an absent one makes no run fail).
C8_AbsentTargetPlaceholder ==
    /\ DocSucceeded =>
          /\ exit_status = <<0>>
          /\ doc_file.kind = "text"
          /\ \A i \in 1..Len(target_dirs) :
                /\ project[i].kind = "none" => str_in(not_found(target_dirs[i]), DocText)
                /\ project[i].kind = "dir" =>
                      \A block \in { str_join(<<"\n">>, <<heading(target_dirs[i])>>
                                                         \o Listing(project[i].content)
                                                         \o << <<>> >>) } :
                          str_in(block, DocText)
    /\ (tool = "doc" /\ pc = "failed" /\ output_lines = <<>>)
          => \E i \in 1..Len(target_dirs) : project[i].kind # "none"

C8_Witness ==
    /\ DocSucceeded
    /\ project[1].kind = "none"
    /\ project[2].kind = "dir"
    /\ Cardinality(PathsOf(project[2].content)) >= 2
    /\ str_in(not_found(target_dirs[1]), DocText)

\* C9: the lines of a target are one per file and directory of its tree, the
\* line of a path at the rank of the path in the pre-order walk by
\* lexicographic name order, indented two spaces per level; and a second run
\* on the same tree leaves the document as the first wrote it.
C9_PreorderListing ==
    /\ (tool = "doc" /\ pc \in {"open", "write", "done"}) =>
          /\ \A i \in 1..Len(target_dirs) :
                project[i].kind = "dir" =>
                    LET paths == PathsOf(project[i].content)
                        start == SectionStart(i)
                    IN  /\ output_lines[start] = heading(target_dirs[i])
                        /\ \A p \in paths :
                              output_lines[start + Rank(paths, p)] = LineOf(project[i].content, p)
                        /\ output_lines[start + Cardinality(paths) + 1] = <<>>
          /\ Len(output_lines) = SectionStart(Len(target_dirs) + 1) - 1
    /\ (DocSucceeded /\ run >= 2) => doc_file = doc_pre

C9_Witness ==
    /\ DocSucceeded /\ run = 2
    /\ project[1].kind = "dir"
    /\ \E n \in Names :
          /\ project[1].content[n].kind = "dir"
          /\ Cardinality(PathsOf(project[1].content[n].content)) >= 2
    /\ doc_file = doc_pre

====
